---------------------------- MODULE Spec2Model ----------------------------
(***************************************************************************)
(* Model of gcs_transcribe_async.py: one invocation of the script, from    *)
(* argument parsing to process exit.  Strings are TLA+ strings, the clock  *)
(* is in milliseconds, the file system is a function from absolute paths   *)
(* to file contents, and the cloud client is an environment that answers   *)
(* every call nondeterministically.                                        *)
(***************************************************************************)
EXTENDS Integers, Sequences, FiniteSets, TLC

VARIABLES
    path,           \* args.path
    language,       \* args.language
    length,         \* args.length
    cwd,            \* working directory of the process
    fs,             \* file system: absolute path -> contents
    fs0,            \* the file system as the process found it (history)
    pc,             \* position of the script
    status,         \* "running", or how the process ended
    audio,          \* value returned by get_audio
    config,         \* value returned by get_config
    now,            \* time.time(), in milliseconds
    start_time,     \* start_time of transcribe_long_audio_file
    job,            \* the long-running operation: "none", "running", "done"
    results,        \* response.results / operation.result().results
    transcription,  \* value the driver returned to __main__
    printed,        \* last line written to stdout
    new_path,       \* value returned by write_file
    opens,          \* every open() call made so far: [file, mode]
    calls           \* how often each step was entered (history)

vars == <<path, language, length, cwd, fs, fs0, pc, status, audio, config,
          now, start_time, job, results, transcription, printed, new_path,
          opens, calls>>

(***************************************************************************)
(* Program constants                                                       *)
(***************************************************************************)
TimeoutSecs == 43200
SleepSecs == 120
MinuteSecs == 60
HourSecs == 3600
DefaultRate == 44100

(***************************************************************************)
(* Bounds of the model                                                     *)
(***************************************************************************)
JitterMs == 5
MaxSegments == 2

Prefix == "gs://"

None == [isNone |-> TRUE, str |-> ""]
Some(s) == [isNone |-> FALSE, str |-> s]

(***************************************************************************)
(* String helpers: Python's str methods on TLA+ strings                    *)
(***************************************************************************)
CharAt(s, i) == SubSeq(s, i, i)

\* s[:i] and s[i:] with Python's 0-based index i
Upto(s, i) == SubSeq(s, 1, i)
From(s, i) == SubSeq(s, i + 1, Len(s))

\* a prefix test that forgets the last character of the prefix
startswith_shorter(s, p) ==
    Len(s) >= Len(p) - 1 /\ SubSeq(s, 1, Len(p) - 1) = SubSeq(p, 1, Len(p) - 1)

startswith(s, p) == Len(s) >= Len(p) /\ SubSeq(s, 1, Len(p)) = p

endswith(s, p) == Len(s) >= Len(p) /\ SubSeq(s, Len(s) - Len(p) + 1, Len(s)) = p

\* s.rfind(c) for a one-character c: 0-based index of the last c, or -1
RECURSIVE rfindFrom(_, _, _)
rfindFrom(s, c, i) ==
    IF i = 0 THEN -1
    ELSE IF CharAt(s, i) = c THEN i - 1
    ELSE rfindFrom(s, c, i - 1)

rfind(s, c) == rfindFrom(s, c, Len(s))

\* s.rstrip('/')
RECURSIVE rstripSlash(_)
rstripSlash(s) ==
    IF s # "" /\ endswith(s, "/") THEN rstripSlash(Upto(s, Len(s) - 1)) ELSE s

\* whether s consists of '/' only
RECURSIVE allSlashes(_)
allSlashes(s) ==
    IF s = "" THEN TRUE
    ELSE Head(s) = "/" /\ allSlashes(Tail(s))


(***************************************************************************)
(* os.path (posixpath) as the script uses it                               *)
(***************************************************************************)
\* os.path.split(p): (head, tail), tail holding no slash
os_path_split(p) ==
    LET i == rfind(p, "/") + 1
        head == Upto(p, i)
        tail == From(p, i)
    IN  IF head # "" /\ ~allSlashes(head)
        THEN <<rstripSlash(head), tail>>
        ELSE <<head, tail>>

\* the loop of genericpath._splitext that skips leading dots: whether some
\* character of p[filenameIndex:dotIndex] is not a dot
RECURSIVE hasNonDot(_, _, _)
hasNonDot(p, filenameIndex, dotIndex) ==
    IF filenameIndex >= dotIndex THEN FALSE
    ELSE IF CharAt(p, filenameIndex + 1) # "." THEN TRUE
    ELSE hasNonDot(p, filenameIndex + 1, dotIndex)

\* os.path.splitext(p): (root, ext)
os_path_splitext(p) ==
    LET sepIndex == rfind(p, "/")
        dotIndex == rfind(p, ".")
    IN  IF dotIndex > sepIndex /\ hasNonDot(p, sepIndex + 1, dotIndex)
        THEN <<Upto(p, dotIndex), From(p, dotIndex)>>
        ELSE <<p, "">>

\* os.path.join(a, b)
os_path_join(a, b) ==
    IF startswith(b, "/") THEN b
    ELSE IF a = "" \/ endswith(a, "/") THEN a \o b
    ELSE a \o "/" \o b

\* the file a name given to open() denotes: relative names are taken from
\* the working directory
Resolve(dir, name) == os_path_join(dir, name)

(***************************************************************************)
(* Numbers and their text                                                  *)
(***************************************************************************)
\* round(x, 2) of a duration of ms milliseconds, as hundredths of a second:
\* the nearest hundredth, a tie going to the even one
Round2(ms) ==
    LET q == ms \div 10
        r == ms % 10
    IN  IF r < 5 THEN q
        ELSE IF r > 5 THEN q + 1
        ELSE IF q % 2 = 0 THEN q ELSE q + 1

\* str() of the float cs/100, cs >= 0 hundredths: '45.0', '45.1', '45.12'
FloatStr(cs) ==
    LET whole == cs \div 100
        frac == cs % 100
    IN  ToString(whole) \o "." \o
        (IF frac % 10 = 0 THEN ToString(frac \div 10)
         ELSE IF frac < 10 THEN "0" \o ToString(frac)
         ELSE ToString(frac))

\* get_wait_time with the first comparison strict: a minute is no longer
\* told in seconds
get_wait_time_strict(start, clock) ==
    LET total_time == Round2(clock - start)
    IN  IF total_time < MinuteSecs * 100
        THEN [raised |-> FALSE, value |-> FloatStr(total_time) \o " seconds"]
        ELSE IF total_time <= HourSecs * 100
        THEN LET m == total_time \div (MinuteSecs * 100)
                 s == total_time % (MinuteSecs * 100)
             IN  [raised |-> FALSE,
                  value |-> FloatStr(m * 100) \o " minutes " \o FloatStr(s) \o " seconds"]
        ELSE [raised |-> TRUE, value |-> ""]

\* get_wait_time(start_time) with time.time() = clock: the text returned, or
\* raised = TRUE when `return wait_time` finds wait_time unassigned
get_wait_time(start, clock) ==
    LET total_time == Round2(clock - start)
    IN  IF total_time <= MinuteSecs * 100
        THEN [raised |-> FALSE, value |-> FloatStr(total_time) \o " seconds"]
        ELSE IF total_time <= HourSecs * 100
        THEN LET m == total_time \div (MinuteSecs * 100)
                 s == total_time % (MinuteSecs * 100)
             IN  [raised |-> FALSE,
                  value |-> FloatStr(m * 100) \o " minutes " \o FloatStr(s) \o " seconds"]
        ELSE [raised |-> TRUE, value |-> ""]

(***************************************************************************)
(* Results of the speech service                                           *)
(***************************************************************************)
\* a result segment is its sequence of alternatives, best first; the
\* service returns at least one alternative per segment
Segments == {<<"hello", "hallo">>, <<"world">>}

RECURSIVE SeqsUpTo(_, _)
SeqsUpTo(S, n) ==
    IF n = 0 THEN {<<>>}
    ELSE LET shorter == SeqsUpTo(S, n - 1)
         IN  shorter \cup {Append(q, x) : q \in shorter, x \in S}

Responses == SeqsUpTo(Segments, MaxSegments)

\* the loop of lines 103-105: transcription += '{}\n'.format(...)
RECURSIVE assembleFrom(_, _, _)
assembleFrom(rs, i, text) ==
    IF i > Len(rs) THEN text
    ELSE assembleFrom(rs, i + 1, text \o rs[i][1] \o "\n")

\* an assembly that takes the last alternative of each segment
RECURSIVE assembleLastFrom(_, _, _)
assembleLastFrom(rs, i, text) ==
    IF i > Len(rs) THEN text
    ELSE assembleLastFrom(rs, i + 1, text \o rs[i][Len(rs[i])] \o "\n")

assemble_last(rs) == assembleLastFrom(rs, 1, "")

assemble(rs) == assembleFrom(rs, 1, "")

\* the loop of lines 79-80: the last line it prints, if any
lastTranscriptLine(rs, before) ==
    IF rs = <<>> THEN before
    ELSE "Transcript: " \o rs[Len(rs)][1]

(***************************************************************************)
(* The environment of one invocation                                       *)
(***************************************************************************)
Paths == {"/tmp/clip.wav", "clip.wav", "/tmp/none.wav", "gs://b/a.flac"}
Languages == {"en-US", "fr-FR"}
Lengths == {"short", "long"}
Dirs == {"/tmp", "/home/u"}

AudioFiles == ("/tmp/clip.wav" :> "RIFF") @@ ("/home/u/clip.wav" :> "fLaC")
OldOutputs == ("/tmp/clip_en-US.txt" :> "old") @@ ("/home/u/clip_en-US.txt" :> "old")
FileSystems == {AudioFiles, AudioFiles @@ OldOutputs}

\* time a call to the service may take, and time time.sleep() may take
\* beyond the time asked for (a loaded or suspended machine)
Latency == {0, JitterMs}
Oversleep == {0, HourSecs * 1000, TimeoutSecs * 1000}

NoCalls ==
    [get_audio |-> 0, get_config |-> 0, recognize |-> 0, submit |-> 0,
     done |-> 0, returned |-> 0, write_file |-> 0]

Called(step) == calls' = [calls EXCEPT ![step] = @ + 1]

Exit(how) == pc' = "exited" /\ status' = how

\* the state of the script before its first statement
Fresh ==
    /\ fs0 = fs
    /\ pc = "get_audio"
    /\ status = "running"
    /\ audio = [kind |-> "none", value |-> ""]
    /\ config = [encoding |-> "none", sample_rate_hertz |-> 0, language_code |-> ""]
    /\ now = 0
    /\ start_time = 0
    /\ job = "none"
    /\ results = <<>>
    /\ transcription = None
    /\ printed = ""
    /\ new_path = ""
    /\ opens = <<>>
    /\ calls = NoCalls

Init ==
    /\ path \in Paths
    /\ language \in Languages
    /\ length \in Lengths
    /\ cwd \in Dirs
    /\ fs \in FileSystems
    /\ Fresh

(***************************************************************************)
(* get_audio, line 142                                                     *)
(***************************************************************************)
GetAudio ==
    /\ pc = "get_audio"
    /\ Called("get_audio")
    /\ IF startswith(path, Prefix)
       THEN /\ audio' = [kind |-> "uri", value |-> path]
            /\ pc' = "get_config"
            /\ UNCHANGED <<opens, status>>
       ELSE LET file == Resolve(cwd, path)
            IN  /\ opens' = Append(opens, [file |-> file, mode |-> "rb"])
                /\ IF file \in DOMAIN fs
                   THEN /\ audio' = [kind |-> "content", value |-> fs[file]]
                        /\ pc' = "get_config"
                        /\ UNCHANGED status
                   ELSE /\ Exit("IOError")
                        /\ UNCHANGED audio
    /\ UNCHANGED <<path, language, length, cwd, fs, fs0, config, now,
                   start_time, job, results, transcription, printed, new_path>>

(***************************************************************************)
(* get_config, line 143, and the dispatch of line 145                      *)
(***************************************************************************)
get_config(lang, rate) ==
    [encoding |-> "FLAC", sample_rate_hertz |-> rate, language_code |-> lang]

GetConfig ==
    /\ pc = "get_config"
    /\ Called("get_config")
    /\ config' = get_config(language, DefaultRate)
    /\ pc' = IF length = "short" THEN "recognize" ELSE "submit"
    /\ UNCHANGED <<path, language, length, cwd, fs, fs0, status, audio, now,
                   start_time, job, results, transcription, printed, new_path,
                   opens>>

(***************************************************************************)
(* transcribe_short_audio_file: the call either raises or answers; the     *)
(* function prints the transcripts and ends without a return statement     *)
(***************************************************************************)
TranscribeShort ==
    /\ pc = "recognize"
    /\ \E ok \in BOOLEAN :
          IF ok
          THEN \E response \in Responses :
                  /\ calls' = [calls EXCEPT !.recognize = @ + 1, !.returned = @ + 1]
                  /\ results' = response
                  /\ printed' = lastTranscriptLine(response, printed)
                  /\ transcription' = None
                  /\ pc' = "write_file"
                  /\ UNCHANGED status
          ELSE /\ Called("recognize")
               /\ Exit("ApiError")
               /\ UNCHANGED <<results, printed, transcription>>
    /\ UNCHANGED <<path, language, length, cwd, fs, fs0, audio, config, now,
                   start_time, job, new_path, opens>>

(***************************************************************************)
(* transcribe_long_audio_file, lines 84-89: the submission                 *)
(***************************************************************************)
Submit ==
    /\ pc = "submit"
    /\ Called("submit")
    /\ \E ok \in BOOLEAN :
          IF ok
          THEN /\ job' = "running"
               /\ printed' = "Operation sent to Google Cloud for transcription"
               /\ start_time' = now
               /\ pc' = "poll"
               /\ UNCHANGED status
          ELSE /\ Exit("ApiError")
               /\ UNCHANGED <<job, printed, start_time>>
    /\ UNCHANGED <<path, language, length, cwd, fs, fs0, audio, config, now,
                   results, transcription, new_path, opens>>

(***************************************************************************)
(* line 90: operation.done()                                               *)
(***************************************************************************)
Poll ==
    /\ pc = "poll"
    /\ Called("done")
    /\ \E d \in Latency, answer \in {"running", "done", "error"} :
          /\ now' = now + d
          /\ IF answer = "error"
             THEN /\ Exit("ApiError")
                  /\ UNCHANGED job
             ELSE /\ job' = answer
                  /\ pc' = IF answer = "done" THEN "finish" ELSE "loop_body"
                  /\ UNCHANGED status
    /\ UNCHANGED <<path, language, length, cwd, fs, fs0, audio, config,
                   start_time, results, transcription, printed, new_path, opens>>

(***************************************************************************)
(* lines 91-98: the body of the polling loop                               *)
(***************************************************************************)
\* a loop that goes back to the submission
Resubmit == "submit"

\* where the loop goes after time.sleep(120): back to its condition
PollAgain == "poll"

LoopBody ==
    /\ pc = "loop_body"
    /\ IF (start_time - now) > TimeoutSecs * 1000
       THEN /\ printed' = "Operation is still running after 12 hours, exiting program"
            /\ Exit("SystemExit")
            /\ UNCHANGED now
       ELSE LET wait_time == get_wait_time(start_time, now)
            IN  IF wait_time.raised
                THEN /\ Exit("UnboundLocalError")
                     /\ UNCHANGED <<printed, now>>
                ELSE /\ printed' =
                          "Waiting for transcription to complete, total operation time is "
                              \o wait_time.value \o "\n"
                     /\ \E late \in Oversleep : now' = now + SleepSecs * 1000 + late
                     /\ pc' = PollAgain
                     /\ UNCHANGED status
    /\ UNCHANGED <<path, language, length, cwd, fs, fs0, audio, config,
                   start_time, job, results, transcription, new_path, opens,
                   calls>>

(***************************************************************************)
(* lines 100-101: the loop has ended, the total time is reported           *)
(***************************************************************************)
Finish ==
    /\ pc = "finish"
    /\ LET wait_time == get_wait_time(start_time, now)
       IN  IF wait_time.raised
           THEN /\ printed' = "Operation completed"
                /\ Exit("UnboundLocalError")
           ELSE /\ printed' = "Total operation time was " \o wait_time.value
                /\ pc' = "result"
                /\ UNCHANGED status
    /\ UNCHANGED <<path, language, length, cwd, fs, fs0, audio, config, now,
                   start_time, job, results, transcription, new_path, opens,
                   calls>>

(***************************************************************************)
(* lines 103-106: operation.result() and the assembly of the transcript    *)
(***************************************************************************)
Result ==
    /\ pc = "result"
    /\ \E ok \in BOOLEAN :
          IF ok
          THEN \E response \in Responses :
                  /\ results' = response
                  /\ transcription' = Some(assemble(response))
                  /\ Called("returned")
                  /\ pc' = "write_file"
                  /\ UNCHANGED status
          ELSE /\ Exit("ApiError")
               /\ UNCHANGED <<results, transcription, calls>>
    /\ UNCHANGED <<path, language, length, cwd, fs, fs0, audio, config, now,
                   start_time, job, printed, new_path, opens>>

(***************************************************************************)
(* write_file, line 149                                                    *)
(***************************************************************************)
\* the name write_file opens (line 56) and the path it reports (line 60)
write_name(p, lang) ==
    LET ext_name == os_path_split(p)[2]
    IN  os_path_splitext(ext_name)[1] \o "_" \o lang \o ".txt"

write_new_path(p, lang) == os_path_join(os_path_split(p)[1], write_name(p, lang))

WriteFile ==
    /\ pc = "write_file"
    /\ Called("write_file")
    /\ LET name == write_name(path, language)
           file == Resolve(cwd, name)
       IN  /\ opens' = Append(opens, [file |-> file, mode |-> "w+"])
           /\ \E writable \in BOOLEAN :
                 IF ~writable
                 THEN /\ Exit("IOError")
                      /\ UNCHANGED <<fs, printed, new_path>>
                 ELSE IF transcription.isNone
                 THEN /\ fs' = (file :> "") @@ fs
                      /\ Exit("TypeError")
                      /\ UNCHANGED <<printed, new_path>>
                 ELSE /\ fs' = (file :> transcription.str) @@ fs
                      /\ new_path' = write_new_path(path, language)
                      /\ printed' = "Saved transcription to " \o new_path'
                      /\ Exit("ok")
    /\ UNCHANGED <<path, language, length, cwd, fs0, audio, config, now,
                   start_time, job, results, transcription>>

Next ==
    \/ GetAudio
    \/ GetConfig
    \/ TranscribeShort
    \/ Submit
    \/ Poll
    \/ LoopBody
    \/ Finish
    \/ Result
    \/ WriteFile

Spec == Init /\ [][Next]_vars

(***************************************************************************)
(* get_audio on every short path string, the file present or absent        *)
(***************************************************************************)
MaxPathLen == 6

Alphabet == {"g", "s", ":", "/", "a"}

RECURSIVE StringsUpTo(_)
StringsUpTo(n) ==
    IF n = 0 THEN {""}
    ELSE LET shorter == StringsUpTo(n - 1)
         IN  shorter \cup {t \o c : t \in shorter, c \in Alphabet}

InitAudio ==
    /\ path \in StringsUpTo(MaxPathLen)
    /\ language = "en-US"
    /\ length = "long"
    /\ cwd \in Dirs
    /\ fs \in {AudioFiles, (Resolve(cwd, path) :> "fLaC") @@ AudioFiles}
    /\ Fresh

NextAudio == GetAudio

SpecAudio == InitAudio /\ [][NextAudio]_vars

(***************************************************************************)
(* get_wait_time on every elapsed time, in hundredths of a second, up to   *)
(* just beyond an hour: the job is seen done that long after submission    *)
(***************************************************************************)
MaxWaitCs == 360100

InitWait ==
    /\ path = "gs://b/a.flac"
    /\ language = "en-US"
    /\ length = "long"
    /\ cwd = "/tmp"
    /\ fs = AudioFiles
    /\ fs0 = fs
    /\ pc = "finish"
    /\ status = "running"
    /\ audio = [kind |-> "uri", value |-> path]
    /\ config = get_config(language, DefaultRate)
    /\ start_time = 0
    /\ now \in {10 * t : t \in 0..MaxWaitCs}
    /\ job = "done"
    /\ results = <<>>
    /\ transcription = None
    /\ printed = "Operation sent to Google Cloud for transcription"
    /\ new_path = ""
    /\ opens = <<>>
    /\ calls = [NoCalls EXCEPT !.get_audio = 1, !.get_config = 1, !.submit = 1,
                               !.done = 1]

NextWait == Finish

SpecWait == InitWait /\ [][NextWait]_vars

(***************************************************************************)
(* Properties                                                              *)
(***************************************************************************)
Elapsed == now - start_time

\* the loop body has run with the job not done and has ended the process
\* by itself
StoppedInLoop ==
    /\ pc = "exited"
    /\ job = "running"
    /\ status # "ApiError"

\* the files opened for writing
WrittenFiles == {opens[i].file : i \in {j \in DOMAIN opens : opens[j].mode = "w+"}}

\* C1: if the job is never seen done, a loop iteration entered more than
\* 12 hours after the submission takes the timeout branch: the process ends
\* TimedOut (SystemExit), no transcript was returned and write_file was
\* never called.
C1_TimesOutAfter12Hours ==
    (StoppedInLoop /\ Elapsed > TimeoutSecs * 1000)
        => /\ status = "SystemExit"
           /\ calls.returned = 0
           /\ calls.write_file = 0

\* C2: with no error from the cloud client, the long-form driver never stops
\* at a poll where the job is not done and at most 12 hours have elapsed: it
\* reports, sleeps and checks again.
C2_KeepsPollingWithin12Hours ==
    ~(StoppedInLoop /\ Elapsed <= TimeoutSecs * 1000)

\* C3: once a status check has seen the job done, at most 12 hours after
\* the submission, and neither the cloud client nor the file system raises,
\* the invocation ends with one transcript returned and one file written;
\* no invocation returns more than one transcript or writes more than one
\* file.
C3_DoneYieldsOneTranscriptOneFile ==
    /\ calls.returned <= 1
    /\ Cardinality(WrittenFiles) <= 1
    /\ (/\ pc = "exited"
        /\ job = "done"
        /\ Elapsed <= TimeoutSecs * 1000
        /\ status \notin {"ApiError", "IOError"})
           => /\ status = "ok"
              /\ calls.returned = 1
              /\ \E f \in WrittenFiles : f \in DOMAIN fs /\ fs[f] = transcription.str

\* the transcript the claims describe: the first alternative of each
\* segment, in order, each followed by a newline
RECURSIVE FirstAlternatives(_)
FirstAlternatives(rs) ==
    IF rs = <<>> THEN ""
    ELSE Head(rs)[1] \o "\n" \o FirstAlternatives(Tail(rs))

\* C4: a short-form invocation whose recognize call succeeded, and whose
\* output file could be opened, ends with the transcript of the first
\* alternatives returned by the driver and written to the output file.
C4_ShortFormWritesTranscript ==
    (/\ pc = "exited"
     /\ length = "short"
     /\ calls.returned = 1
     /\ status # "IOError")
        => /\ status = "ok"
           /\ transcription = Some(FirstAlternatives(results))
           /\ \E f \in WrittenFiles :
                 f \in DOMAIN fs /\ fs[f] = FirstAlternatives(results)

\* C5: for a local path, whatever the working directory, the path
\* write_file returns is the file it wrote: that file holds the transcript
\* and is the only file opened for writing.
C5_ReportedPathIsWrittenFile ==
    (status = "ok" /\ ~startswith(path, Prefix))
        => /\ WrittenFiles = {Resolve(cwd, new_path)}
           /\ Resolve(cwd, new_path) \in DOMAIN fs
           /\ fs[Resolve(cwd, new_path)] = transcription.str

\* C6: an invocation that ends in a failure leaves the file system as it
\* found it.
C6_FailureLeavesFilesUnchanged ==
    (pc = "exited" /\ status # "ok") => fs = fs0

\* C7: the transcript the long-form driver returns is the first alternative
\* of every result segment, in segment order, each followed by one newline;
\* segments 'hello', 'world' give 'hello\nworld\n'.
C7_TranscriptAssembly ==
    (length = "long" /\ calls.returned = 1)
        => /\ transcription = Some(FirstAlternatives(results))
           /\ (results = <<<<"hello", "hallo">>, <<"world">>>>
                  => transcription.str = "hello\nworld\n")
           /\ (results = <<>> => transcription.str = "")

C7_Witness ==
    /\ length = "long"
    /\ calls.returned = 1
    /\ results = <<<<"hello", "hallo">>, <<"world">>>>
    /\ transcription.str = "hello\nworld\n"

\* whether p begins with the five characters g s : / /
BeginsWithGs(p) ==
    /\ Len(p) >= 5
    /\ CharAt(p, 1) = "g"
    /\ CharAt(p, 2) = "s"
    /\ CharAt(p, 3) = ":"
    /\ CharAt(p, 4) = "/"
    /\ CharAt(p, 5) = "/"

\* C8: get_audio yields a remote reference exactly for the paths that begin
\* with 'gs://', with the path verbatim as its URI and without opening any
\* file; every other path is opened for binary read and yields the file's
\* exact content (or the open fails), never a remote reference.
C8_GetAudio ==
    calls.get_audio = 1
        => /\ (audio.kind = "uri") <=> BeginsWithGs(path)
           /\ BeginsWithGs(path)
                 => /\ audio = [kind |-> "uri", value |-> path]
                    /\ opens = <<>>
                    /\ status = "running"
           /\ ~BeginsWithGs(path)
                 => /\ Len(opens) >= 1
                    /\ opens[1] = [file |-> Resolve(cwd, path), mode |-> "rb"]
                    /\ IF Resolve(cwd, path) \in DOMAIN fs0
                       THEN audio = [kind |-> "content",
                                     value |-> fs0[Resolve(cwd, path)]]
                       ELSE audio.kind = "none" /\ status = "IOError"

C8_Witness ==
    /\ calls.get_audio = 1
    /\ path = "gs://a"
    /\ Resolve(cwd, path) \in DOMAIN fs
    /\ audio = [kind |-> "uri", value |-> "gs://a"]
    /\ opens = <<>>

C8_WitnessLocal ==
    /\ calls.get_audio = 1
    /\ path = "gs:/a"
    /\ audio = [kind |-> "content", value |-> "fLaC"]

\* C9: for an elapsed time of t hundredths of a second, get_wait_time gives
\* 't seconds' when t <= 60 s, 60 included, and for 60 s < t <= 3600 s gives
\* 'M minutes S seconds' with 60*M + S = t and 0 <= S < 60; 45.0 gives
\* '45.0 seconds', 125.0 '2.0 minutes 5.0 seconds', 60.0 '60.0 seconds'.
C9_WaitTimeText ==
    LET t == Round2(Elapsed)
        said == "Total operation time was "
    IN  /\ (pc = "finish" \/ t > HourSecs * 100 \/ pc = "result")
        /\ pc = "result"
              => /\ t <= HourSecs * 100
                 /\ t <= MinuteSecs * 100
                       => printed = said \o FloatStr(t) \o " seconds"
                 /\ t > MinuteSecs * 100
                       => \E M \in 1..MinuteSecs :
                             LET S == t - MinuteSecs * 100 * M
                             IN  /\ 0 <= S
                                 /\ S < MinuteSecs * 100
                                 /\ printed = said \o FloatStr(M * 100)
                                        \o " minutes " \o FloatStr(S) \o " seconds"
                 /\ Elapsed = 45000 => printed = said \o "45.0 seconds"
                 /\ Elapsed = 60000 => printed = said \o "60.0 seconds"
                 /\ Elapsed = 125000 => printed = said \o "2.0 minutes 5.0 seconds"

C9_Witness ==
    /\ pc = "result"
    /\ Elapsed = 125000
    /\ printed = "Total operation time was 2.0 minutes 5.0 seconds"

\* C10: the steps run in the order load audio, build config, one API
\* submission, status polls, write output, each only after the one before
\* it completed without error: at most one submission, no API call unless
\* the audio was loaded, no status check without a submitted job, no write
\* unless a driver returned.
C10_StepOrder ==
    /\ calls.get_audio <= 1
    /\ calls.get_config <= 1
    /\ calls.write_file <= 1
    /\ calls.submit + calls.recognize <= 1
    /\ calls.get_config = 1 => (calls.get_audio = 1 /\ audio.kind # "none")
    /\ audio.kind = "none" => calls.submit + calls.recognize = 0
    /\ calls.submit + calls.recognize = 1
          => (calls.get_config = 1 /\ config = get_config(language, DefaultRate))
    /\ calls.done > 0 => (calls.submit = 1 /\ job # "none")
    /\ job # "none" => calls.submit = 1
    /\ calls.returned = 1
          => (calls.recognize = 1 \/ (calls.done > 0 /\ job = "done"))
    /\ calls.write_file = 1 => calls.returned = 1
    /\ calls.returned <= 1

C10_Witness ==
    /\ status = "ok"
    /\ calls.submit = 1
    /\ calls.done >= 2
    /\ calls.write_file = 1

=============================================================================
